---- MODULE Spec2Model ----
(***************************************************************************)
(* Model of sunpy/net/download.py: IDPool, Reactor/SelectReactor and       *)
(* Downloader.                                                             *)
(*                                                                         *)
(* Seven specifications share the module:                                  *)
(*   Spec      the Downloader driven by download() calls and by the        *)
(*             reactor dispatching Downloader._download for a registered   *)
(*             transfer (one dispatched callback per step);                *)
(*   FairSpec  Spec restricted to requests for which nothing raises, with  *)
(*             registered transfers eventually reading end-of-data;        *)
(*   SpecSync  Reactor.call_sync called by other threads, interleaved      *)
(*             statement by statement with Reactor.run on the dispatcher;  *)
(*   FairSync  SpecSync with every thread eventually scheduled;            *)
(*   SpecPool  IDPool.get / IDPool.release called by several threads,      *)
(*             interleaved statement by statement under IDPool._lock;      *)
(*   SpecRun   one Reactor.run over a Downloader with two registered       *)
(*             transfers (each a socket or a periodic callback) and thunks *)
(*             queued by call_sync calls that returned before run();       *)
(*   FairRun   SpecRun with every thread eventually scheduled.             *)
(***************************************************************************)
EXTENDS Integers, Sequences, FiniteSets, TLC

VARIABLES
    \* ---- Downloader (Spec) ----
    max_conn,       \* Downloader.max_conn
    max_total,      \* Downloader.max_total
    conns,          \* Downloader.conns
    connections,    \* Downloader.connections : server -> int
    q,              \* Downloader.q : server -> deque of (url, path, callback)
    callb,          \* Reactor.callb : sock -> (_download, args)
    tcalls,         \* Reactor.tcalls : id -> (_download, args)
    ids,            \* Reactor.ids : the IDPool [max_id, free_ids]
    halted,         \* an exception escaped a callback and ended Reactor.run
    nreq,           \* history: number of download() calls so far
    starts,         \* history: request id -> number of _start_download calls
    delivered,      \* history: request id -> number of user callback calls
    ev,             \* history: the last operation and the request it was for
    \* ---- Reactor.call_sync / Reactor.run (SpecSync) ----
    call,           \* Reactor.call : the list self.call is bound to
    bytes,          \* bytes sent on synce and not yet received on syncr
    running,        \* Reactor.running
    dpc,            \* dispatcher: position in run / _call_calls
    didx,           \* dispatcher: index of the for loop of _call_calls
    tpc,            \* caller thread -> position in call_sync
    tref,           \* caller thread -> the list object it loaded self.call as
    tkind,          \* caller thread -> the thunk it submits
    executed,       \* history: thunk (caller thread) -> times executed
    \* ---- IDPool (SpecPool) ----
    max_id,         \* IDPool.max_id
    free_ids,       \* IDPool.free_ids
    lock,           \* IDPool._lock : the thread holding it, or NoThread
    ppc,            \* pool thread -> position in get / release
    plocal,         \* pool thread -> what it read of the pool, and its argument
    held,           \* history: pool thread -> sequence of ids get() returned to it
    \* ---- Reactor.run with registered transfers (SpecRun) ----
    ready,          \* the registered descriptors select would report readable
    ret,            \* Reactor.run: ret, the list poll() returned
    snap,           \* _call_tcalls: the list the for loop iterates
    rlog            \* history: what the current iteration of run has executed

dvars == <<max_conn, max_total, conns, connections, q, callb, tcalls, ids,
           halted, nreq, starts, delivered, ev>>
svars == <<call, bytes, running, dpc, didx, tpc, tref, tkind, executed>>
pvars == <<max_id, free_ids, lock, ppc, plocal, held>>
rvars == <<ready, ret, snap, rlog>>
vars == <<dvars, svars, pvars, rvars>>

-----------------------------------------------------------------------------
(* Bounds of the model *)

\* number of download() calls explored
MaxReq == 3
\* non-empty chunks a transfer may deliver before end-of-data
MaxChunks == 1

\* url.split('/')[0] of the URLs submitted
Servers == {"ftp:", "https:"}
\* what urllib2.urlopen(url) does: returns a handle with fileno(), returns a
\* handle without fileno(), or raises
Opens == {"fileno", "nofileno", "fault"}
\* Downloader(max_conn, max_total) configurations explored
Configs == {<<1, 1>>, <<1, 2>>, <<5, 2>>}

Last(s) == s[Len(s)]
Front(s) == SubSeq(s, 1, Len(s) - 1)

-----------------------------------------------------------------------------
(* IDPool as pure functions of the pool [max_id, free_ids] *)

NewPool == [max_id |-> -1, free_ids |-> <<>>]

\* IDPool_get taking the id from the front of free_ids: free_ids.pop(0)
IDPool_get_PopFirst(p) ==
    IF p.free_ids # <<>>
    THEN [id |-> Head(p.free_ids), pool |-> [p EXCEPT !.free_ids = Tail(@)]]
    ELSE [id |-> p.max_id + 1, pool |-> [p EXCEPT !.max_id = @ + 1]]

\* IDPool.get body: the id returned and the pool afterwards
IDPool_get(p) ==
    IF p.free_ids # <<>>
    THEN [id |-> Last(p.free_ids), pool |-> [p EXCEPT !.free_ids = Front(@)]]
    ELSE [id |-> p.max_id + 1, pool |-> [p EXCEPT !.max_id = @ + 1]]

\* IDPool_release comparing len(self.free_ids) with self.max_id
IDPool_release_OffByOne(p, id_) ==
    LET f == Append(p.free_ids, id_)
    IN  IF Len(f) = p.max_id THEN NewPool ELSE [p EXCEPT !.free_ids = f]

\* IDPool.release body (with reset): the pool afterwards
IDPool_release(p, id_) ==
    LET f == Append(p.free_ids, id_)
    IN  IF Len(f) = p.max_id + 1 THEN NewPool ELSE [p EXCEPT !.free_ids = f]

-----------------------------------------------------------------------------
(* Downloader.  The methods are functions of the Downloader/Reactor state  *)
(* s = [conns, connections, q, callb, tcalls, ids, starts,                 *)
(* delivered, exc, ret]: exc names the exception that is propagating        *)
(* ("none" when there is none), ret is set when _close has executed its     *)
(* return statement.                                                        *)
(* A request is [id, server, open, cb]: server is url.split('/')[0], open   *)
(* what urlopen(url) does, cb whether a callback was passed (FALSE: None).  *)

DState ==
    [conns |-> conns, connections |-> connections, q |-> q, callb |-> callb,
     tcalls |-> tcalls, ids |-> ids, starts |-> starts,
     delivered |-> delivered, exc |-> "none", ret |-> FALSE]

\* Reactor.add_fd / SelectReactor.add_fd
add_fd(s, fd, args) == [s EXCEPT !.callb = @ @@ (fd :> args)]

\* Reactor.rem_fd / SelectReactor.rem_fd
rem_fd(s, fd) ==
    [s EXCEPT !.callb = [k \in (DOMAIN @) \ {fd} |-> @[k]]]

\* Reactor.add_tcall
add_tcall(s, args) ==
    LET g == IDPool_get(s.ids)
    IN  [s EXCEPT !.ids = g.pool, !.tcalls = @ @@ (g.id :> args)]

\* Reactor.rem_tcall
rem_tcall(s, id_) ==
    [s EXCEPT !.tcalls = [k \in (DOMAIN @) \ {id_} |-> @[k]],
              !.ids = IDPool_release(@, id_)]

\* the handle urllib2.urlopen returns: an object distinct from every handle
\* still registered (named by the least number not in use)
NewSock(s) ==
    LET used == (DOMAIN s.callb) \cup {s.tcalls[k].sock : k \in DOMAIN s.tcalls}
    IN  CHOOSE n \in 1..(Cardinality(used) + 1) :
            n \notin used /\ \A m \in 1..(n - 1) : m \in used

\* Downloader._start_download
StartDownload(s, rq) ==
    LET s1 == [s EXCEPT !.connections[rq.server] = @ + 1,
                        !.conns = @ + 1,
                        !.starts[rq.id] = @ + 1]
        sock == NewSock(s1)
        args == [sock |-> sock, req |-> rq, got |-> 0]
    IN  IF rq.open = "fault"
        THEN [s1 EXCEPT !.exc = "URLError"]
        ELSE IF rq.open = "nofileno"
             THEN add_tcall(s1, args)
             ELSE add_fd(s1, sock, args)

\* Admits with the two caps joined by 'or': either cap having room admits
Admits_EitherCap(s, server) ==
    s.connections[server] < max_conn \/ s.conns < max_total

\* the admission test of Downloader._attempt_download
Admits(s, server) ==
    s.connections[server] < max_conn /\ s.conns < max_total

\* Downloader._attempt_download: the state afterwards and the value returned
AttemptDownload(s, rq) ==
    IF Admits(s, rq.server)
    THEN [s |-> StartDownload(s, rq), ok |-> TRUE]
    ELSE [s |-> s, ok |-> FALSE]

\* Downloader.download
DoDownload(s, rq) ==
    LET a == AttemptDownload(s, rq)
    IN  IF a.ok
        THEN a.s
        ELSE [s EXCEPT !.q[rq.server] = Append(@, rq)]

\* the request the sweep of _close tests and starts: v[0]
SweepPick(v) == Head(v)

\* the while loop of Downloader._close over one queue q[k]
RECURSIVE SweepQueue(_, _)
SweepQueue(s, k) ==
    IF s.q[k] = <<>>
    THEN s
    ELSE LET a == AttemptDownload(s, SweepPick(s.q[k]))
         IN  IF a.s.exc # "none"
             THEN a.s
             ELSE IF a.ok
                  THEN LET s2 == [a.s EXCEPT !.q[k] = Front(@)]   \* v.pop()
                       IN  IF s2.conns = max_total
                           THEN [s2 EXCEPT !.ret = TRUE]
                           ELSE SweepQueue(s2, k)
                  ELSE s

\* SweepAll with the for loop left out: no queue is looked at
SweepAll_NoSweep(s, order) == s

\* the for loop of Downloader._close over self.q.iteritems(), the dictionary
\* yielding its keys in the order given
RECURSIVE SweepAll(_, _)
SweepAll(s, order) ==
    IF order = <<>> \/ s.exc # "none" \/ s.ret
    THEN s
    ELSE SweepAll(SweepQueue(s, Head(order)), Tail(order))

\* Close reading the promoted request as q[server][-1] without removing it
Close_NoPop(s, rq, order) ==
    IF ~rq.cb
    THEN [s EXCEPT !.exc = "TypeError"]
    ELSE LET s1 == [s EXCEPT !.delivered[rq.id] = @ + 1]
             d  == rq.server
         IN  IF s1.q[d] # <<>>
             THEN StartDownload(s1, Last(s1.q[d]))
             ELSE SweepAll([s1 EXCEPT !.connections[d] = @ - 1,
                                      !.conns = @ - 1], order)

\* Downloader._close(callback, args, server)
Close(s, rq, order) ==
    IF ~rq.cb
    THEN [s EXCEPT !.exc = "TypeError"]      \* callback is None
    ELSE LET s1 == [s EXCEPT !.delivered[rq.id] = @ + 1]
             d  == rq.server
         IN  IF s1.q[d] # <<>>
             THEN StartDownload([s1 EXCEPT !.q[d] = Front(@)], Last(s1.q[d]))
             ELSE SweepAll([s1 EXCEPT !.connections[d] = @ - 1,
                                      !.conns = @ - 1], order)

\* Downloader._download when sock.read returns no data; the transfer is
\* registered under key (a sock for callb, an id for tcalls)
DownloadEof(s, periodic, key, order) ==
    LET args == IF periodic THEN s.tcalls[key] ELSE s.callb[key]
        s1 == Close(s, args.req, order)
    IN  IF s1.exc # "none"
        THEN s1
        ELSE IF periodic THEN rem_tcall(s1, key) ELSE rem_fd(s1, key)

\* Downloader._download when sock.read returns data: fd.write(rec)
DownloadData(s, periodic, key) ==
    IF periodic
    THEN [s EXCEPT !.tcalls[key].got = @ + 1]
    ELSE [s EXCEPT !.callb[key].got = @ + 1]

-----------------------------------------------------------------------------
(* The Downloader specification *)

\* the orders in which self.q.iteritems() may yield the servers
Orders ==
    {o \in [1..Cardinality(Servers) -> Servers] :
        \A i, j \in DOMAIN o : i # j => o[i] # o[j]}

ReqIds == 1..MaxReq

\* Downloader.__init__ (with the Reactor it constructs)
DInit ==
    /\ \E c \in Configs : max_conn = c[1] /\ max_total = c[2]
    /\ conns = 0
    /\ connections = [d \in Servers |-> 0]
    /\ q = [d \in Servers |-> <<>>]
    /\ callb = <<>>
    /\ tcalls = <<>>
    /\ ids = NewPool
    /\ halted = FALSE
    /\ nreq = 0
    /\ starts = [i \in ReqIds |-> 0]
    /\ delivered = [i \in ReqIds |-> 0]
    /\ ev = [op |-> "init", id |-> 0, server |-> "", exc |-> "none"]

\* the state a method leaves behind
Commit(s) ==
    /\ conns' = s.conns
    /\ connections' = s.connections
    /\ q' = s.q
    /\ callb' = s.callb
    /\ tcalls' = s.tcalls
    /\ ids' = s.ids
    /\ starts' = s.starts
    /\ delivered' = s.delivered
    /\ UNCHANGED <<max_conn, max_total>>

\* a call of Downloader.download(url, path, callback); an exception it raises
\* reaches its caller
Download(server, open, cb) ==
    /\ ~halted
    /\ nreq < MaxReq
    /\ LET rq == [id |-> nreq + 1, server |-> server, open |-> open,
                  cb |-> cb]
           s == DoDownload(DState, rq)
       IN  /\ Commit(s)
           /\ nreq' = nreq + 1
           /\ ev' = [op |-> "download", id |-> rq.id, server |-> server,
                     exc |-> s.exc]
    /\ UNCHANGED <<halted, svars, pvars, rvars>>

\* the args a transfer is registered with
RegArgs(periodic, key) == IF periodic THEN tcalls[key] ELSE callb[key]
RegKeys(periodic) == IF periodic THEN DOMAIN tcalls ELSE DOMAIN callb

\* Reactor.run dispatches _download for a registered transfer whose
\* sock.read returns data
Data(periodic, key) ==
    /\ ~halted
    /\ key \in RegKeys(periodic)
    /\ RegArgs(periodic, key).got < MaxChunks
    /\ Commit(DownloadData(DState, periodic, key))
    /\ ev' = [op |-> "data", id |-> RegArgs(periodic, key).req.id,
              server |-> RegArgs(periodic, key).req.server, exc |-> "none"]
    /\ UNCHANGED <<halted, nreq, svars, pvars, rvars>>

\* Reactor.run dispatches _download for a registered transfer whose
\* sock.read returns no data; an exception it raises leaves Reactor.run
Eof(periodic, key, order) ==
    /\ ~halted
    /\ key \in RegKeys(periodic)
    /\ LET s == DownloadEof(DState, periodic, key, order)
       IN  /\ Commit(s)
           /\ halted' = (s.exc # "none")
           /\ ev' = [op |-> "eof", id |-> RegArgs(periodic, key).req.id,
                     server |-> RegArgs(periodic, key).req.server,
                     exc |-> s.exc]
    /\ UNCHANGED <<nreq, svars, pvars, rvars>>

EofAny ==
    \E periodic \in BOOLEAN : \E key \in RegKeys(periodic) :
       \E order \in Orders : Eof(periodic, key, order)

DNext ==
    \/ \E server \in Servers, open \in Opens, cb \in BOOLEAN :
          Download(server, open, cb)
    \/ \E periodic \in BOOLEAN : \E key \in RegKeys(periodic) :
          Data(periodic, key)
    \/ EofAny

-----------------------------------------------------------------------------
(* Reactor.call_sync and Reactor.run, statement by statement.  The          *)
(* dispatcher thread runs Reactor.run of a SelectReactor with no transfer   *)
(* registered (fds = {syncr}); every caller thread calls call_sync once,    *)
(* with _unset_running (that is Reactor.stop) or with another function.     *)

\* number of threads calling call_sync
NCallers == 2

Callers == 1..NCallers
Thunks == {"_unset_running", "fun"}

\* Reactor.__init__, no thread having called anything yet
SInit ==
    /\ call = <<>>
    /\ bytes = 0
    /\ running = FALSE
    /\ dpc = "idle"
    /\ didx = 0
    /\ tpc = [t \in Callers |-> "idle"]
    /\ tref = [t \in Callers |-> "none"]
    /\ tkind = [t \in Callers |-> "none"]
    /\ executed = [t \in Callers |-> 0]

\* a thread calls call_sync(fun) (stop() when fun is _unset_running)
CallSync(t, fun) ==
    /\ tpc[t] = "idle"
    /\ tpc' = [tpc EXCEPT ![t] = "load"]
    /\ tkind' = [tkind EXCEPT ![t] = fun]
    /\ UNCHANGED <<call, bytes, running, dpc, didx, tref, executed,
                   dvars, pvars, rvars>>

\* call_sync, line 126: the thread evaluates self.call
SyncLoad(t) ==
    /\ tpc[t] = "load"
    /\ tref' = [tref EXCEPT ![t] = "current"]
    /\ tpc' = [tpc EXCEPT ![t] = "append"]
    /\ UNCHANGED <<call, bytes, running, dpc, didx, tkind, executed,
                   dvars, pvars, rvars>>

\* the list after the thread's append: the list self.call is bound to gains
\* the thunk when it is the list the thread loaded; a list self.call is no
\* longer bound to is garbage
Appended(l, t, ref) ==
    IF ref = "current" THEN Append(l, [by |-> t, fun |-> tkind[t]]) ELSE l

\* call_sync, lines 126-131: .append((fun, args, kwargs)) on the list loaded
SyncAppend(t) ==
    /\ tpc[t] = "append"
    /\ call' = Appended(call, t, tref[t])
    /\ tpc' = [tpc EXCEPT ![t] = "send"]
    /\ UNCHANGED <<bytes, running, dpc, didx, tref, tkind, executed,
                   dvars, pvars, rvars>>

\* what call_sync waits for before it returns: nothing, synce.send('m') on a
\* socket pair returns as soon as the byte is buffered
MayReturn(t) == TRUE

\* call_sync, line 132: self.synce.send('m'), and the return to the caller
SyncSend(t) ==
    /\ tpc[t] = "send"
    /\ MayReturn(t)
    /\ bytes' = bytes + 1
    /\ tpc' = [tpc EXCEPT ![t] = "returned"]
    /\ UNCHANGED <<call, running, dpc, didx, tref, tkind, executed,
                   dvars, pvars, rvars>>

\* Reactor.run, line 110
Run ==
    /\ dpc = "idle"
    /\ running' = TRUE
    /\ dpc' = "while"
    /\ UNCHANGED <<call, bytes, didx, tpc, tref, tkind, executed,
                   dvars, pvars, rvars>>

\* Reactor.run, line 111: while self.running
RunWhile ==
    /\ dpc = "while"
    /\ dpc' = IF running THEN "poll" ELSE "returned"
    /\ UNCHANGED <<call, bytes, running, didx, tpc, tref, tkind, executed,
                   dvars, pvars, rvars>>

\* SelectReactor.poll: select returns once syncr is readable; then
\* _call_calls starts iterating self.call
Poll ==
    /\ dpc = "poll"
    /\ bytes > 0
    /\ dpc' = "for"
    /\ didx' = 0
    /\ UNCHANGED <<call, bytes, running, tpc, tref, tkind, executed,
                   dvars, pvars, rvars>>

\* _call_calls, lines 151-153: the for loop takes the next element of the
\* list, if there is one, and calls it
CallNext ==
    /\ dpc = "for"
    /\ didx < Len(call)
    /\ LET c == call[didx + 1]
       IN  /\ executed' = [executed EXCEPT ![c.by] = @ + 1]
           /\ running' = IF c.fun = "_unset_running" THEN FALSE ELSE running
    /\ didx' = didx + 1
    /\ dpc' = "recv"
    /\ UNCHANGED <<call, bytes, tpc, tref, tkind,
                   dvars, pvars, rvars>>

\* _call_calls, line 154: self.syncr.recv(1) blocks until a byte is there
CallRecv ==
    /\ dpc = "recv"
    /\ bytes > 0
    /\ bytes' = bytes - 1
    /\ dpc' = "for"
    /\ UNCHANGED <<call, running, didx, tpc, tref, tkind, executed,
                   dvars, pvars, rvars>>

\* _call_calls, line 151: the for loop finds the list exhausted
CallEnd ==
    /\ dpc = "for"
    /\ didx >= Len(call)
    /\ dpc' = "reset"
    /\ UNCHANGED <<call, bytes, running, didx, tpc, tref, tkind, executed,
                   dvars, pvars, rvars>>

\* the list self.call is bound to after line 155
ResetCall(l) == <<>>

\* _call_calls, line 155: self.call = [] binds self.call to a new list; the
\* list the callers loaded before is no longer the one self.call is bound to
CallReset ==
    /\ dpc = "reset"
    /\ call' = ResetCall(call)
    /\ didx' = 0
    /\ tref' = [t \in Callers |-> IF tref[t] = "current" /\ tpc[t] = "append"
                                  THEN "stale" ELSE tref[t]]
    /\ dpc' = "dispatch"
    /\ UNCHANGED <<bytes, running, tpc, tkind, executed,
                   dvars, pvars, rvars>>

\* Reactor.run, lines 114-120: no periodic callback is registered, and syncr,
\* the descriptor poll reported, has no entry in callb (KeyError, continue)
Dispatch ==
    /\ dpc = "dispatch"
    /\ dpc' = "while"
    /\ UNCHANGED <<call, bytes, running, didx, tpc, tref, tkind, executed,
                   dvars, pvars, rvars>>

SNext ==
    \/ \E t \in Callers, fun \in Thunks : CallSync(t, fun)
    \/ \E t \in Callers : SyncLoad(t)
    \/ \E t \in Callers : SyncAppend(t)
    \/ \E t \in Callers : SyncSend(t)
    \/ Run
    \/ RunWhile
    \/ Poll
    \/ CallNext
    \/ CallRecv
    \/ CallEnd
    \/ CallReset
    \/ Dispatch

\* the Downloader's variables where only the Reactor is exercised
DIdle ==
    /\ max_conn = 5 /\ max_total = 20
    /\ conns = 0
    /\ connections = [d \in Servers |-> 0]
    /\ q = [d \in Servers |-> <<>>]
    /\ callb = <<>>
    /\ tcalls = <<>>
    /\ ids = NewPool
    /\ halted = FALSE
    /\ nreq = 0
    /\ starts = [i \in ReqIds |-> 0]
    /\ delivered = [i \in ReqIds |-> 0]
    /\ ev = [op |-> "init", id |-> 0, server |-> "", exc |-> "none"]

\* number of threads using the IDPool
NPoolThreads == 2
\* ids outstanding or being fetched at most, over all threads
MaxOut == 3

PoolThreads == 1..NPoolThreads
NoThread == 0

\* the locals of a thread that is in neither get nor release
NoLocals == [pool |-> NewPool, id |-> -1]

\* IDPool.__init__, no thread having called anything yet
PInit ==
    /\ max_id = NewPool.max_id
    /\ free_ids = NewPool.free_ids
    /\ lock = NoThread
    /\ ppc = [t \in PoolThreads |-> "idle"]
    /\ plocal = [t \in PoolThreads |-> NoLocals]
    /\ held = [t \in PoolThreads |-> <<>>]

\* SelectReactor.__init__: nothing polled or executed yet
RInit ==
    /\ ready = {}
    /\ ret = <<>>
    /\ snap = <<>>
    /\ rlog = <<>>

SyncInit == DIdle /\ SInit /\ PInit /\ RInit
SpecSync == SyncInit /\ [][SNext]_vars

\* the steps of the thread that called Reactor.run, and of a thread inside
\* call_sync: every thread that can take a step eventually takes one
DispatcherNext ==
    Run \/ RunWhile \/ Poll \/ CallNext \/ CallRecv \/ CallEnd \/ CallReset
        \/ Dispatch
CallerNext(t) == SyncLoad(t) \/ SyncAppend(t) \/ SyncSend(t)
FairSync ==
    /\ SyncInit /\ [][SNext]_vars
    /\ WF_vars(DispatcherNext)
    /\ \A t \in Callers : WF_vars(CallerNext(t))

Init == DInit /\ SInit /\ PInit /\ RInit
Next == DNext
Spec == Init /\ [][Next]_vars

\* The Downloader when no operation raises, so that the reactor keeps
\* running: every request has a callback and an opener that returns a handle.
\* Registered transfers keep reaching end-of-data; as every behaviour takes
\* finitely many steps, each registered transfer then reads end-of-data.
DownloadOk ==
    \E server \in Servers, open \in Opens \ {"fault"} :
       Download(server, open, TRUE)

DataAny ==
    \E periodic \in BOOLEAN : \E key \in RegKeys(periodic) :
       Data(periodic, key)

FairNext == DownloadOk \/ DataAny \/ EofAny
FairSpec == Init /\ [][FairNext]_vars /\ WF_vars(EofAny)

-----------------------------------------------------------------------------
(* Properties of the Downloader *)

\* the args of every transfer registered with the reactor
Regs == {callb[k] : k \in DOMAIN callb} \cup {tcalls[k] : k \in DOMAIN tcalls}

\* request i is in a pending queue
Queued(i) == \E d \in Servers : \E j \in DOMAIN q[d] : q[d][j].id = i

\* request i has a transfer among the registrations regs
ActiveIn(regs, i) == \E a \in regs : a.req.id = i

\* request i has a transfer registered with the reactor
Active(i) == ActiveIn(Regs, i)

RECURSIVE SumOver(_, _)
SumOver(f, S) ==
    IF S = {} THEN 0
    ELSE LET x == CHOOSE y \in S : TRUE IN f[x] + SumOver(f, S \ {x})

\* C1: at every stable point, for every destination d,
\* connections[d] <= max_conn.
C1_PerDestinationCap ==
    \A d \in Servers : connections[d] <= max_conn

\* C2: at every stable point, conns equals the sum of the per-destination
\* counters and never exceeds max_total.
C2_TotalIsSumAndCapped ==
    /\ conns = SumOver(connections, Servers)
    /\ conns <= max_total

\* C3: while no exception has ended the dispatch loop, a request that is in
\* a pending queue has never been started, and a request that is no longer
\* (or never was) in a queue has been started exactly once: what leaves a
\* queue is what is started, and nothing is started twice.
C3_StartedOnceWhenDequeued ==
    ~halted => \A i \in 1..nreq : starts[i] = (IF Queued(i) THEN 0 ELSE 1)

\* C4 (under FairSpec: no operation raises, the reactor keeps running and
\* every registered transfer eventually reads end-of-data): every request in
\* a pending queue is eventually started.
C4_QueueDrains ==
    \A i \in ReqIds : Queued(i) ~> (starts[i] >= 1)

\* C5: download() enters _start_download for its request if and only if,
\* at the call, connections[d] < max_conn and conns < max_total (and the
\* transfer is then registered with the reactor unless the opener raises);
\* otherwise it only appends the request to q[d] and leaves the counters,
\* the other queues and the reactor's registrations unchanged.
C5_AdmissionIff ==
    [][nreq' = nreq + 1 =>
        LET i == nreq + 1
            d == ev'.server
            admit == connections[d] < max_conn /\ conns < max_total
        IN  /\ (starts'[i] = 1) <=> admit
            /\ starts'[i] \in {0, 1}
            /\ admit =>
                 /\ q' = q
                 /\ conns' = conns + 1
                 /\ connections' = [connections EXCEPT ![d] = @ + 1]
                 /\ (ev'.exc = "none") => ActiveIn(Regs', i)
            /\ ~admit =>
                 /\ Len(q'[d]) = Len(q[d]) + 1
                 /\ Last(q'[d]).id = i
                 /\ Last(q'[d]).server = d
                 /\ Front(q'[d]) = q[d]
                 /\ \A e \in Servers \ {d} : q'[e] = q[e]
                 /\ ~ActiveIn(Regs', i)
                 /\ UNCHANGED <<conns, connections, callb, tcalls, ids>>
    ]_vars

\* C5 witness: max_conn=5, max_total=2, two requests to two distinct
\* destinations, both registered right after the second download().
C5_Witness ==
    /\ max_conn = 5 /\ max_total = 2
    /\ nreq = 2 /\ ev.op = "download" /\ ev.id = 2
    /\ \E a, b \in Regs :
          a.req.id = 1 /\ b.req.id = 2 /\ a.req.server # b.req.server
    /\ \A d \in Servers : q[d] = <<>>

\* s with its j-th element removed
RemoveAt(s, j) == SubSeq(s, 1, j - 1) \o SubSeq(s, j + 1, Len(s))

\* C6: when a transfer of destination d reads end-of-data, its callback has
\* run and q[d] holds k >= 1 requests, exactly one of them is started (and
\* registered unless its opener raises) and the other k-1 stay in q[d], in
\* their order; no other request is started and no other queue changes.
C6_ExactlyOnePromoted ==
    [][(ev'.op = "eof" /\ ~halted /\ ev'.exc # "TypeError"
            /\ q[ev'.server] # <<>>) =>
        LET d == ev'.server
        IN  \E j \in DOMAIN q[d] :
              LET p == q[d][j]
              IN  /\ q'[d] = RemoveAt(q[d], j)
                  /\ starts' = [starts EXCEPT ![p.id] = @ + 1]
                  /\ (p.open # "fault") => ActiveIn(Regs', p.id)
                  /\ \A e \in Servers \ {d} : q'[e] = q[e]
    ]_vars

\* C6 witness: max_conn=1, max_total=2, three requests to one destination;
\* request 1 has just completed, exactly one of {2,3} is registered and the
\* other is still queued.
C6_Witness ==
    /\ max_conn = 1 /\ max_total = 2 /\ nreq = 3
    /\ ev.op = "eof" /\ ev.id = 1 /\ delivered[1] = 1
    /\ \E d \in Servers :
          /\ Len(q[d]) = 1
          /\ \E a \in Regs :
                /\ Regs = {a}
                /\ a.req.server = d
                /\ {a.req.id, q[d][1].id} = {2, 3}

\* C7: an operation in which the opener raises leaves the dispatch loop
\* running; when it is download() that started the transfer, both counters
\* are back at their values before the start and the request's callback
\* has been called with the error.
C7_OpenerFaultContained ==
    [][((nreq' = nreq + 1 \/ (ev'.op = "eof" /\ ~halted))
            /\ ev'.exc = "URLError") =>
        /\ ~halted'
        /\ (nreq' = nreq + 1) =>
             /\ conns' = conns
             /\ connections' = connections
             /\ delivered'[ev'.id] = delivered[ev'.id] + 1
    ]_vars

\* the step is Downloader._download reading end-of-data for a transfer of
\* destination d and returning without an exception
Completes(d) ==
    ev'.op = "eof" /\ ~halted /\ ev'.exc = "none" /\ ev'.server = d

\* request rq is started in the step
StartedNow(rq) == starts'[rq.id] > starts[rq.id]

\* C14: when the completion hook promotes a queued request of the finishing
\* transfer's own destination d, connections[d] and conns have the same
\* values after the promotion as before the completion.
C14_PromotionKeepsCounters ==
    [][\A d \in Servers : (Completes(d) /\ q[d] # <<>>) =>
          /\ connections'[d] = connections[d]
          /\ conns' = conns
    ]_vars

\* the transfers of destination d registered with the reactor
RegsOf(d) == {a \in Regs : a.req.server = d}

\* C15: at every stable point, for every destination d, connections[d] is
\* the number of transfers of d registered with the reactor, and no
\* transfer is registered both as descriptor and as periodic callback.
C15_CountersMatchRegistrations ==
    /\ \A d \in Servers : connections[d] = Cardinality(RegsOf(d))
    /\ \A k \in DOMAIN tcalls : tcalls[k].sock \notin DOMAIN callb

\* C16: whenever the completion hook starts queued requests of a
\* destination, in the same-destination branch or in the sweep, it starts
\* the most recently queued ones: a request of q[d] is started only if
\* every request queued after it is started too.
C16_PromotionIsLifo ==
    [][(ev'.op = "eof" /\ ~halted /\ ev'.exc = "none") =>
          \A d \in Servers : \A j, k \in DOMAIN q[d] :
             (j < k /\ StartedNow(q[d][j])) => StartedNow(q[d][k])
    ]_vars

\* C18: a transfer of a request submitted without callback that reads
\* end-of-data is deregistered from the reactor and its slot is released or
\* handed to a queued request, and no exception reaches the dispatch loop.
C18_NoCallbackCompletes ==
    [][\A a \in Regs :
          (ev'.op = "eof" /\ ~halted /\ ev'.id = a.req.id /\ ~a.req.cb) =>
             /\ ~halted'
             /\ a \notin Regs'
    ]_vars

\* C20: at every stable point, a destination whose pending queue is not
\* empty has connections[d] >= max_conn or conns >= max_total.
C20_WorkConserving ==
    \A d \in Servers :
       q[d] # <<>> => (connections[d] >= max_conn \/ conns >= max_total)

\* C20 witness: a transfer has completed with its own queue empty, the sweep
\* has started a request of another destination, and a request is still
\* queued there.
C20_Witness ==
    /\ ev.op = "eof" /\ ev.exc = "none" /\ ~halted
    /\ q[ev.server] = <<>>
    /\ \E d \in Servers \ {ev.server} :
          /\ q[d] # <<>>
          /\ \E a \in Regs : a.req.server = d

-----------------------------------------------------------------------------
(* IDPool.get and IDPool.release called by several threads, statement by   *)
(* statement: the thread acquires self._lock, reads the pool, writes the    *)
(* pool, and releases the lock in the finally clause.                       *)

\* LockFree for an acquire that never waits
LockFree_NoWait(l) == TRUE

\* threading.Lock.acquire returns when no thread holds the lock
LockFree(l) == l = NoThread

\* the ids outstanding plus the get() calls in progress
RECURSIVE NumOutOf(_)
NumOutOf(T) ==
    IF T = {} THEN 0
    ELSE LET t == CHOOSE u \in T : TRUE
         IN  Len(held[t])
             + (IF ppc[t] \in {"get_acquire", "get_read", "get_write"}
                THEN 1 ELSE 0)
             + NumOutOf(T \ {t})
NumOut == NumOutOf(PoolThreads)

\* a thread calls get()
GetCall(t) ==
    /\ ppc[t] = "idle"
    /\ NumOut < MaxOut
    /\ ppc' = [ppc EXCEPT ![t] = "get_acquire"]
    /\ UNCHANGED <<max_id, free_ids, lock, plocal, held, dvars, svars, rvars>>

\* a thread calls release(id_) for an id it holds
ReleaseCall(t, j) ==
    /\ ppc[t] = "idle"
    /\ j \in DOMAIN held[t]
    /\ plocal' = [plocal EXCEPT ![t].id = held[t][j]]
    /\ held' = [held EXCEPT ![t] = SubSeq(@, 1, j - 1) \o SubSeq(@, j + 1, Len(@))]
    /\ ppc' = [ppc EXCEPT ![t] = "release_acquire"]
    /\ UNCHANGED <<max_id, free_ids, lock, dvars, svars, rvars>>

\* self._lock.acquire(), lines 41 and 55
Acquire(t) ==
    /\ ppc[t] \in {"get_acquire", "release_acquire"}
    /\ LockFree(lock)
    /\ lock' = t
    /\ ppc' = [ppc EXCEPT ![t] = IF @ = "get_acquire" THEN "get_read"
                                                      ELSE "release_read"]
    /\ UNCHANGED <<max_id, free_ids, plocal, held, dvars, svars, rvars>>

\* get and release read self.free_ids and self.max_id (lines 43, 46, 57, 58)
PoolRead(t) ==
    /\ ppc[t] \in {"get_read", "release_read"}
    /\ plocal' = [plocal EXCEPT ![t].pool =
                     [max_id |-> max_id, free_ids |-> free_ids]]
    /\ ppc' = [ppc EXCEPT ![t] = IF @ = "get_read" THEN "get_write"
                                                   ELSE "release_write"]
    /\ UNCHANGED <<max_id, free_ids, lock, held, dvars, svars, rvars>>

\* get writes the pool back and has its return value (lines 44, 46-47)
GetWrite(t) ==
    /\ ppc[t] = "get_write"
    /\ LET g == IDPool_get(plocal[t].pool)
       IN  /\ max_id' = g.pool.max_id
           /\ free_ids' = g.pool.free_ids
           /\ held' = [held EXCEPT ![t] = Append(@, g.id)]
    /\ ppc' = [ppc EXCEPT ![t] = "unlock"]
    /\ UNCHANGED <<lock, plocal, dvars, svars, rvars>>

\* release writes the pool back (lines 57-59, 66-67)
ReleaseWrite(t) ==
    /\ ppc[t] = "release_write"
    /\ LET r == IDPool_release(plocal[t].pool, plocal[t].id)
       IN  /\ max_id' = r.max_id
           /\ free_ids' = r.free_ids
    /\ ppc' = [ppc EXCEPT ![t] = "unlock"]
    /\ UNCHANGED <<lock, plocal, held, dvars, svars, rvars>>

\* finally: self._lock.release(), lines 49 and 61, and the return
Unlock(t) ==
    /\ ppc[t] = "unlock"
    /\ lock' = NoThread
    /\ ppc' = [ppc EXCEPT ![t] = "idle"]
    /\ plocal' = [plocal EXCEPT ![t] = NoLocals]
    /\ UNCHANGED <<max_id, free_ids, held, dvars, svars, rvars>>

PNext ==
    \/ \E t \in PoolThreads : GetCall(t)
    \/ \E t \in PoolThreads, j \in 1..MaxOut : ReleaseCall(t, j)
    \/ \E t \in PoolThreads : Acquire(t)
    \/ \E t \in PoolThreads : PoolRead(t)
    \/ \E t \in PoolThreads : GetWrite(t)
    \/ \E t \in PoolThreads : ReleaseWrite(t)
    \/ \E t \in PoolThreads : Unlock(t)

PoolInit == DIdle /\ SInit /\ PInit /\ RInit
SpecPool == PoolInit /\ [][PNext]_vars

-----------------------------------------------------------------------------
(* Reactor.run of the SelectReactor of a Downloader, statement by statement, *)
(* with the transfers that download() calls made before run() registered,   *)
(* the thunks that call_sync calls made before run() queued, and            *)
(* descriptors becoming readable while run() executes.                      *)

\* Reactor.syncr as a member of SelectReactor.fds (the handles urlopen
\* returns are numbered from 1)
syncr == 0

\* the lists that hold every element of S once
Perms(S) ==
    {o \in [1..Cardinality(S) -> S] :
        \A i, j \in DOMAIN o : i # j => o[i] # o[j]}

\* Downloader(): the default configuration with download() called for two
\* URLs, each opened with or without a fileno(), before reactor.run()
DRun ==
    /\ max_conn = 5 /\ max_total = 20
    /\ \E o1, o2 \in Opens \ {"fault"} :
          LET s0 == [conns |-> 0, connections |-> [d \in Servers |-> 0],
                     q |-> [d \in Servers |-> <<>>], callb |-> <<>>,
                     tcalls |-> <<>>, ids |-> NewPool,
                     starts |-> [i \in ReqIds |-> 0],
                     delivered |-> [i \in ReqIds |-> 0],
                     exc |-> "none", ret |-> FALSE]
              r1 == [id |-> 1, server |-> "ftp:", open |-> o1, cb |-> TRUE]
              r2 == [id |-> 2, server |-> "https:", open |-> o2, cb |-> TRUE]
              s  == DoDownload(DoDownload(s0, r1), r2)
          IN  /\ conns = s.conns
              /\ connections = s.connections
              /\ q = s.q
              /\ callb = s.callb
              /\ tcalls = s.tcalls
              /\ ids = s.ids
              /\ starts = s.starts
              /\ delivered = s.delivered
    /\ halted = FALSE
    /\ nreq = 2
    /\ ev = [op |-> "download", id |-> 2, server |-> "https:", exc |-> "none"]

\* the thunks (reactor.rem_fd, [sock]) for the handles of the two transfers,
\* and the handle each removes
RemFd == ("rem_fd(1)" :> 1) @@ ("rem_fd(2)" :> 2)

\* the (fun, args) other threads pass to call_sync: a function that touches
\* nothing, Reactor._unset_running, or reactor.rem_fd with a handle that is
\* registered when call_sync is called
RunThunks ==
    {"fun", "_unset_running"}
        \cup {n \in DOMAIN RemFd : RemFd[n] \in DOMAIN callb}

\* data or end-of-data arrives on a registered handle
Ready(fd) ==
    /\ fd \in DOMAIN callb
    /\ fd \notin ready
    /\ ready' = ready \cup {fd}
    /\ UNCHANGED <<ret, snap, rlog, dvars, svars, pvars>>

\* what select.select(self.fds, [], []) reports: the readable members of
\* self.fds, syncr being readable while a byte is unread
Readable ==
    (ready \cap DOMAIN callb) \cup (IF bytes > 0 THEN {syncr} ELSE {})

\* Reactor.run, line 112: ret = self.poll(); select has no timeout and
\* returns when a member of self.fds is readable
RunPoll ==
    /\ dpc = "poll"
    /\ Readable # {}
    /\ \E o \in Perms(Readable) : ret' = o
    /\ rlog' = <<>>
    /\ dpc' = "for"
    /\ didx' = 0
    /\ UNCHANGED <<ready, snap, call, bytes, running, tpc, tref, tkind,
                   executed, dvars, pvars>>

\* _call_calls, lines 151-153: the for loop takes the next element of the
\* list and calls it; rem_fd of a handle without registration raises
\* KeyError, which leaves run()
RunCall ==
    /\ dpc = "for"
    /\ didx < Len(call)
    /\ LET c == call[didx + 1]
           rem == c.fun \in DOMAIN RemFd
       IN  /\ executed' = [executed EXCEPT ![c.by] = @ + 1]
           /\ rlog' = Append(rlog, [kind |-> "thunk", key |-> c.by])
           /\ running' = IF c.fun = "_unset_running" THEN FALSE ELSE running
           /\ IF rem /\ RemFd[c.fun] \notin DOMAIN callb
              THEN /\ dpc' = "raised"
                   /\ UNCHANGED <<callb, ready>>
              ELSE /\ dpc' = "recv"
                   /\ callb' = IF rem THEN rem_fd(DState, RemFd[c.fun]).callb
                                      ELSE callb
                   /\ ready' = IF rem THEN ready \ {RemFd[c.fun]} ELSE ready
    /\ didx' = didx + 1
    /\ UNCHANGED <<max_conn, max_total, conns, connections, q, tcalls, ids,
                   halted, nreq, starts, delivered, ev, call, bytes, tpc,
                   tref, tkind, ret, snap, pvars>>

\* _call_tcalls, line 135: list(self.tcalls.itervalues()), the dictionary
\* yielding its entries in some order; an entry is named by its key, as a
\* periodic transfer is only removed by its own callback
TcallsList ==
    /\ dpc = "dispatch"
    /\ \E o \in Perms(DOMAIN tcalls) : snap' = o
    /\ didx' = 0
    /\ dpc' = "tcalls"
    /\ UNCHANGED <<ready, ret, rlog, call, bytes, running, tpc, tref, tkind,
                   executed, dvars, pvars>>

\* the loop calls Downloader._download for the transfer registered under
\* key: sock.read returns data, or no data; an exception leaves run()
RunDownload(periodic, key) ==
    \E eof \in BOOLEAN, order \in Orders :
       /\ ~eof => RegArgs(periodic, key).got < MaxChunks
       /\ LET s == IF eof THEN DownloadEof(DState, periodic, key, order)
                          ELSE DownloadData(DState, periodic, key)
          IN  /\ Commit(s)
              /\ halted' = (s.exc # "none")
              /\ dpc' = IF s.exc # "none" THEN "raised" ELSE dpc
              /\ ev' = [op |-> IF eof THEN "eof" ELSE "data",
                        id |-> RegArgs(periodic, key).req.id,
                        server |-> RegArgs(periodic, key).req.server,
                        exc |-> s.exc]

\* _call_tcalls, lines 135-137: the for loop calls the next entry
TcallNext ==
    /\ dpc = "tcalls"
    /\ didx < Len(snap)
    /\ RunDownload(TRUE, snap[didx + 1])
    /\ rlog' = Append(rlog, [kind |-> "tcall", key |-> snap[didx + 1]])
    /\ didx' = didx + 1
    /\ UNCHANGED <<nreq, call, bytes, running, tpc, tref, tkind, executed,
                   ready, ret, snap, pvars>>

\* _call_tcalls returns (its list is gone), Reactor.run goes on to line 115
TcallsEnd ==
    /\ dpc = "tcalls"
    /\ didx >= Len(snap)
    /\ snap' = <<>>
    /\ dpc' = "fds"
    /\ didx' = 0
    /\ UNCHANGED <<ready, ret, rlog, call, bytes, running, tpc, tref,
                   tkind, executed, dvars, pvars>>

\* OnKeyError without the try of lines 116-119: the KeyError leaves run()
OnKeyError_Uncaught(pc) == "raised"

\* Reactor.run, lines 118-119: except KeyError: continue
OnKeyError(pc) == pc

\* Reactor.run, lines 115-120: the for loop takes the next fd of ret and
\* calls the callback self.callb has for it, if it has one
FdNext ==
    /\ dpc = "fds"
    /\ didx < Len(ret)
    /\ LET fd == ret[didx + 1]
       IN  IF fd \in DOMAIN callb
           THEN /\ RunDownload(FALSE, fd)
                /\ ready' = ready \ {fd}
                /\ rlog' = Append(rlog, [kind |-> "fd", key |-> fd])
           ELSE /\ dpc' = OnKeyError(dpc)
                /\ rlog' = Append(rlog, [kind |-> "skip", key |-> fd])
                /\ UNCHANGED <<max_conn, max_total, conns, connections, q,
                               callb, tcalls, ids, halted, starts, delivered,
                               ev, ready>>
    /\ didx' = didx + 1
    /\ UNCHANGED <<nreq, call, bytes, running, tpc, tref, tkind, executed,
                   ret, snap, pvars>>

\* Reactor.run, line 115: the for loop finds ret exhausted and the
\* iteration is over
FdsEnd ==
    /\ dpc = "fds"
    /\ didx >= Len(ret)
    /\ ret' = <<>>
    /\ rlog' = <<>>
    /\ dpc' = "while"
    /\ didx' = 0
    /\ UNCHANGED <<ready, snap, call, bytes, running, tpc, tref,
                   tkind, executed, dvars, pvars>>

\* reactor.run() is called once the call_sync calls made so far have
\* returned; the calls made while run() is executing are those of SpecSync
RunStart ==
    /\ \A t \in Callers : tpc[t] \in {"idle", "returned"}
    /\ Run

\* a step of a thread inside call_sync, before run() is called
RunCaller(t) == dpc = "idle" /\ CallerNext(t)

\* the steps of the thread that called Reactor.run
RunDispatcher ==
    \/ RunStart
    \/ RunWhile
    \/ RunPoll
    \/ RunCall
    \/ CallRecv
    \/ CallEnd
    \/ CallReset
    \/ TcallsList
    \/ TcallNext
    \/ TcallsEnd
    \/ FdNext
    \/ FdsEnd

RunNext ==
    \/ \E t \in Callers, fun \in RunThunks : dpc = "idle" /\ CallSync(t, fun)
    \/ \E t \in Callers : RunCaller(t)
    \/ \E fd \in DOMAIN callb : Ready(fd)
    \/ RunDispatcher

RunInit == DRun /\ SInit /\ PInit /\ RInit
SpecRun == RunInit /\ [][RunNext]_vars

\* every thread that can take a step eventually takes one; whether a
\* descriptor becomes readable and whether a thread calls call_sync is left
\* to the environment
FairRun ==
    /\ RunInit /\ [][RunNext]_vars
    /\ WF_vars(RunDispatcher)
    /\ \A t \in Callers : WF_vars(RunCaller(t))

-----------------------------------------------------------------------------
(* Properties of Reactor.call_sync *)

\* the thunk of thread t is in self.call at a place the for loop of
\* _call_calls has not passed
Pending(t) == \E j \in (didx + 1)..Len(call) : call[j].by = t

\* C8: call_sync does not return to its caller until the thunk it submitted
\* has been executed on the dispatcher thread.
C8_ReturnsAfterExecution ==
    \A t \in Callers : tpc[t] = "returned" => executed[t] >= 1

\* C9: in every interleaving, no submitted thunk is executed twice and none
\* is lost: a thunk whose append has been done is either executed or still
\* in self.call ahead of the drain loop.
C9_ExactlyOnce ==
    \A t \in Callers :
       /\ executed[t] <= 1
       /\ (tpc[t] \in {"send", "returned"} /\ executed[t] = 0) => Pending(t)

\* running is cleared only by the dispatcher executing _unset_running in
\* the for loop of _call_calls
ClearedInDrain ==
    [][(running /\ ~running') =>
          /\ dpc = "for" /\ dpc' = "recv"
          /\ call[didx + 1].fun = "_unset_running"
    ]_vars

\* run() returns only at the while test, the flag having been cleared by an
\* executed _unset_running thunk
ReturnsAtWhile ==
    [][(dpc # "returned" /\ dpc' = "returned") =>
          /\ dpc = "while" /\ ~running
          /\ \E t \in Callers : tkind[t] = "_unset_running" /\ executed[t] >= 1
    ]_vars

\* C13 (under FairSync: run() is called and every thread keeps taking the
\* steps it can take): the running flag is cleared only by the deactivation
\* thunk executing in the dispatcher's drain step, run() returns only at the
\* loop-condition check after that, and once stop() has been called from
\* any thread, run() returns.
C13_StopEndsRun ==
    /\ ClearedInDrain
    /\ ReturnsAtWhile
    /\ \A t \in Callers :
          (tkind[t] = "_unset_running" /\ tpc[t] = "returned")
             ~> (dpc = "returned")

-----------------------------------------------------------------------------
(* Properties of Reactor.run *)

\* the keys of the entries of the given kinds the current iteration has
\* logged, in the order logged
LogKeys(kinds) ==
    LET s == SelectSeq(rlog, LAMBDA e : e.kind \in kinds)
    IN  [j \in DOMAIN s |-> s[j].key]

\* thunks come first, periodic callbacks second, descriptors third
Rank(kind) == IF kind = "thunk" THEN 1 ELSE IF kind = "tcall" THEN 2 ELSE 3

PhasesInOrder ==
    \A i, j \in DOMAIN rlog : i < j => Rank(rlog[i].kind) <= Rank(rlog[j].kind)

\* the drain loop has executed the first didx thunks of self.call in list
\* order, that is in the order of their appends, and leaves the loop with
\* all of them executed
ThunksFifo ==
    dpc \in {"for", "recv", "reset"} =>
       /\ rlog = [j \in 1..didx |-> [kind |-> "thunk", key |-> call[j].by]]
       /\ dpc = "reset" => didx = Len(call)

\* every periodic callback is executed once per iteration, before the first
\* descriptor callback
TcallsAll ==
    /\ dpc = "tcalls" =>
          /\ LogKeys({"tcall"}) = SubSeq(snap, 1, didx)
          /\ \A i, j \in DOMAIN snap : i # j => snap[i] # snap[j]
          /\ DOMAIN tcalls \subseteq {snap[j] : j \in DOMAIN snap}
          /\ didx = 0 => {snap[j] : j \in DOMAIN snap} = DOMAIN tcalls
    /\ dpc = "fds" =>
          \A k \in DOMAIN tcalls :
             Len(SelectSeq(LogKeys({"tcall"}), LAMBDA x : x = k)) = 1

\* the descriptors poll reported are handled in the order of ret, and a
\* skipped one does not end run()
FdsReady ==
    /\ dpc = "fds" => LogKeys({"fd", "skip"}) = SubSeq(ret, 1, didx)
    /\ (rlog # <<>> /\ Last(rlog).kind = "skip") => dpc # "raised"

\* a reported descriptor has its callback called if and only if it has a
\* registration when its turn comes
FdCalledIffRegistered ==
    (dpc = "fds" /\ Len(rlog') = Len(rlog) + 1) =>
        ((Last(rlog').kind = "fd") <=> (Last(rlog').key \in DOMAIN callb))

Periodic(i) == \E k \in DOMAIN tcalls : tcalls[k].req.id = i

\* C19 (under FairRun: the thread in run() keeps taking the steps it can
\* take, no descriptor need become readable and no thread need call
\* call_sync): a transfer registered as a periodic callback, whose handle
\* returns end-of-data after at most MaxChunks reads, reaches completion
\* (its callback is called) unless run() has ended.
C19_PeriodicProgress ==
    \A i \in ReqIds :
       (dpc \notin {"idle", "returned", "raised"} /\ Periodic(i))
          ~> (delivered[i] >= 1 \/ dpc \in {"returned", "raised"})

-----------------------------------------------------------------------------
(* Properties of the IDPool *)

\* the ids get() has returned and release() has not been called for, as
\* (thread, position) pairs
Outstanding == {x \in PoolThreads \X (1..MaxOut) : x[2] <= Len(held[x[1]])}

\* C10: in every interleaving of get and release from several threads, no id
\* is returned by two get() calls without a release() of it in between: the
\* ids outstanding are pairwise distinct.
C10_NoDuplicateIds ==
    \A x, y \in Outstanding : x # y => held[x[1]][x[2]] # held[y[1]][y[2]]

\* C10 witness: two threads hold ids, one of them a reused id, while one
\* thread is inside get() under the lock and the other waits for the lock.
C10_Witness ==
    \E t, u \in PoolThreads :
       /\ t # u
       /\ lock = t /\ ppc[t] = "get_write"
       /\ ppc[u] \in {"get_acquire", "release_acquire"}
       /\ held[t] # <<>> /\ held[u] # <<>>
       /\ free_ids # <<>>

\* thread t takes the step in which get() fixes its return value
GetReturns(t) == ppc[t] = "get_write" /\ ppc'[t] = "unlock"

\* the least element of a non-empty sequence of integers
MinOf(s) == CHOOSE x \in {s[j] : j \in DOMAIN s} :
               \A j \in DOMAIN s : x <= s[j]

\* C11 as stated: get() returns the lowest id not outstanding, the minimum
\* of the free ids if any exist, otherwise the high-water mark plus one.
C11_GetReturnsLowest ==
    [][\A t \in PoolThreads : GetReturns(t) =>
          Last(held'[t]) = (IF free_ids # <<>> THEN MinOf(free_ids)
                                               ELSE max_id + 1)
    ]_vars

\* C11 amended: get() returns the most recently released of the free ids if
\* any exist (and takes it out of free_ids), otherwise the high-water mark
\* plus one (which becomes the high-water mark).
C11_GetReturnsLastReleased ==
    [][\A t \in PoolThreads : GetReturns(t) =>
          IF free_ids # <<>>
          THEN /\ Last(held'[t]) = Last(free_ids)
               /\ free_ids' = Front(free_ids)
               /\ max_id' = max_id
          ELSE /\ Last(held'[t]) = max_id + 1
               /\ free_ids' = free_ids
               /\ max_id' = max_id + 1
    ]_vars

\* C11 witness: a get() has just returned an id from free_ids although a
\* lower id was, and still is, free.
C11_Witness ==
    \E t \in PoolThreads :
       /\ ppc[t] = "unlock" /\ plocal[t].id = NoLocals.id
       /\ plocal[t].pool.free_ids # <<>>
       /\ held[t] # <<>>
       /\ Last(held[t]) = Last(plocal[t].pool.free_ids)
       /\ \E j \in DOMAIN free_ids : free_ids[j] < Last(held[t])

\* C12: whenever every id get() has issued has been released (no id is
\* outstanding and no get or release is under way), the pool is as freshly
\* constructed, max_id = -1 and free_ids empty, and the next get() returns 0.
C12_FreshWhenAllReleased ==
    (\A t \in PoolThreads : held[t] = <<>> /\ ppc[t] \in {"idle", "unlock"})
       => /\ max_id = NewPool.max_id
          /\ free_ids = NewPool.free_ids
          /\ IDPool_get([max_id |-> max_id, free_ids |-> free_ids]).id = 0

\* C12 witness: a release() has just written the pool, the pool it read had
\* issued at least two ids, and no id is outstanding any more.
C12_Witness ==
    \E t \in PoolThreads :
       /\ ppc[t] = "unlock" /\ plocal[t].id # NoLocals.id
       /\ plocal[t].pool.max_id >= 1
       /\ \A u \in PoolThreads : held[u] = <<>> /\ ppc[u] \in {"idle", "unlock"}
       /\ max_id = NewPool.max_id

====
